---- MODULE Spec2Model ----
(***************************************************************************)
(* Model of the TM1637 protocol decoder (pd.py): the Decoder object, its    *)
(* decode() entry point called once per upstream event, and the command    *)
(* and data byte handlers.                                                 *)
(***************************************************************************)
EXTENDS Integers, Sequences, FiniteSets, TLC

VARIABLES
    ss,         \* Decoder.ss: start sample of the event being decoded
    es,         \* Decoder.es: end sample of the event being decoded
    ssb,        \* Decoder.ssb: start sample of the open transmission
    bits,       \* Decoder.bits: bit list of the byte about to be classified
    write,      \* Decoder.write: None / True / False
    state,      \* Decoder.state
    auto,       \* Decoder.auto: None / True / False
    position,   \* Decoder.position
    display,    \* Decoder.display: buffer of displayed chars
    dpoint,     \* Decoder.options["dpoint"]
    cmd,        \* first item of the data argument of the last decode() call
    databyte,   \* second item of the data argument of the last decode() call
    out,        \* records put() by the last decode() call, in order
    calls,      \* handlers entered by the last decode() call, with argument
    raised,     \* TRUE iff the last decode() call ended in an IndexError
    fresh,      \* a second Decoder, constructed when the first was last
                \* reset() and given the same decode() calls since
    reused      \* TRUE iff the last reset() found instance variables that
                \* differed from those of a new Decoder

vars == <<ss, es, ssb, bits, write, state, auto, position, display, dpoint,
          cmd, databyte, out, calls, raised, fresh, reused>>

----------------------------------------------------------------------------
(* Bounds of the model *)

MaxEvents == 9
MaxDisplay == 2
MaxByteEvents == 7
MaxRawEvents == 4
MaxResetEvents == 6
MaxTwinEvents == 12

(* Every upstream event covers EvWidth samples, one per bit of a byte. *)
EvWidth == 8

----------------------------------------------------------------------------
(* Python values *)

None == "None"
True == "True"
False == "False"

PyBool(c) == IF c THEN True ELSE False

(* Bit i of a byte, and the bitwise operators the decoder uses. *)
Bit(n, i) == (n \div (2 ^ i)) % 2

RECURSIVE BitAndFrom(_, _, _)
BitAndFrom(a, b, i) ==
    IF i > 7 THEN 0
    ELSE Bit(a, i) * Bit(b, i) * (2 ^ i) + BitAndFrom(a, b, i + 1)

BitAnd(a, b) == BitAndFrom(a, b, 0)

RECURSIVE BitAndNotFrom(_, _, _)
BitAndNotFrom(a, b, i) ==
    IF i > 7 THEN 0
    ELSE Bit(a, i) * (1 - Bit(b, i)) * (2 ^ i) + BitAndNotFrom(a, b, i + 1)

BitAndNot(a, b) == BitAndNotFrom(a, b, 0)

(* mask = 0; for i in range(lo, hi + 1): mask |= 1 << i *)
RECURSIVE RangeMask(_, _)
RangeMask(lo, hi) == IF lo > hi THEN 0 ELSE (2 ^ lo) + RangeMask(lo + 1, hi)

----------------------------------------------------------------------------
(* Enumeration classes for device parameters *)

Command_DATA == 64
Command_DISPLAY == 128
Command_ADDRESS == 192

(* vars(Command).items() restricted to the non-dunder attributes *)
Command == << <<"DATA", Command_DATA>>, <<"DISPLAY", Command_DISPLAY>>,
              <<"ADDRESS", Command_ADDRESS>> >>

CommandBits_MIN == 6
CommandBits_MAX == 7

DataBits_RW == 1
DataBits_ADDR == 2
DataBits_MODE == 3

DisplayBits_MIN == 0
DisplayBits_MAX == 2
DisplayBits_SWITCH == 3

AddressBits_MIN == 0
AddressBits_MAX == 2

Params_UNKNOWN_CHAR == "?"

(* Enumeration classes for annotations *)

AnnBits_RESERVED == 0
AnnBits_WRITE == 1
AnnBits_READ == 2
AnnBits_DATA == 3
AnnBits_DISPLAY == 4
AnnBits_ADDRESS == 5
AnnBits_AUTO == 6
AnnBits_FIXED == 7
AnnBits_NORMAL == 8
AnnBits_TEST == 9
AnnBits_DIGIT == 10
AnnBits_CONTRAST == 11
AnnBits_OFF == 12
AnnBits_ON == 13

AnnInfo_WARN == AnnBits_ON + 1
AnnInfo_DISPLAY == AnnBits_ON + 2

(* Parameters mapping *)

cmd_annot == (Command_DATA :> AnnBits_DATA) @@
             (Command_DISPLAY :> AnnBits_DISPLAY) @@
             (Command_ADDRESS :> AnnBits_ADDRESS)

contrasts == <<"1/16", "2/16", "4/16", "10/16",
               "11/16", "12/16", "13/16", "14/16">>

segments == <<"a", "b", "c", "d", "e", "f", "g", "dp">>

fonts ==
    (0 :> " ") @@ (32 :> "'") @@ (64 :> "-") @@ (63 :> "0") @@
    (6 :> "1") @@ (91 :> "2") @@ (79 :> "3") @@ (102 :> "4") @@
    (109 :> "5") @@ (125 :> "6") @@ (7 :> "7") @@ (127 :> "8") @@
    (111 :> "9") @@ (119 :> "A") @@ (124 :> "b") @@ (57 :> "C") @@
    (94 :> "d") @@ (121 :> "E") @@ (113 :> "F") @@ (118 :> "H") @@
    (48 :> "I") @@ (14 :> "J") @@ (56 :> "L") @@ (84 :> "n") @@
    (92 :> "o") @@ (115 :> "P") @@ (80 :> "r") @@ (120 :> "t") @@
    (62 :> "U") @@ (15 :> "]") @@ (8 :> "_") @@ (88 :> "c") @@
    (116 :> "h") @@ (16 :> "i") @@ (28 :> "u")

(* Parameters annotations definitions (the module-level dict "bits") *)
bits_annots ==
    (AnnBits_RESERVED :> <<"Reserved", "Rsvd", "R">>) @@
    (AnnBits_WRITE :> <<"Write", "Wrt", "W">>) @@
    (AnnBits_READ :> <<"Read", "Rd", "R">>) @@
    (AnnBits_DATA :> <<"Data command", "Data Cmd", "Data", "D">>) @@
    (AnnBits_DISPLAY :> <<"Display command", "Display Cmd", "Display", "S">>) @@
    (AnnBits_ADDRESS :> <<"Address command", "Address Cmd", "Address",
                          "Addr", "A">>) @@
    (AnnBits_AUTO :> <<"AutoAddr", "Auto", "A">>) @@
    (AnnBits_FIXED :> <<"FixedAddr", "Fix", "F">>) @@
    (AnnBits_NORMAL :> <<"Normal", "Nrm", "N">>) @@
    (AnnBits_TEST :> <<"Test", "Tst", "T">>) @@
    (AnnBits_DIGIT :> <<"Digit", "Dgt", "D">>) @@
    (AnnBits_CONTRAST :> <<"Contrast", "PWM", "C">>) @@
    (AnnBits_OFF :> <<"OFF", "L">>) @@
    (AnnBits_ON :> <<"ON", "H">>)

info ==
    (AnnInfo_WARN :> <<"Warnings", "Warn", "W">>) @@
    (AnnInfo_DISPLAY :> <<"Tubes", "T">>)

----------------------------------------------------------------------------
(* Helpers *)

(* annots.sort(key=len, reverse=True): a stable sort, longest first *)
RECURSIVE InsertByLen(_, _)
InsertByLen(x, s) ==
    IF s = <<>> THEN <<x>>
    ELSE IF Len(Head(s)) >= Len(x) THEN <<Head(s)>> \o InsertByLen(x, Tail(s))
    ELSE <<x>> \o s

RECURSIVE SortByLen(_, _)
SortByLen(s, acc) ==
    IF s = <<>> THEN acc ELSE SortByLen(Tail(s), InsertByLen(Head(s), acc))

(* The last two items of a list: ann_label[-2:] *)
LastTwo(s) == IF Len(s) <= 2 THEN s ELSE SubSeq(s, Len(s) - 1, Len(s))

RECURSIVE LabelsWithValue(_, _)
LabelsWithValue(labels, val) ==
    IF labels = <<>> THEN <<>>
    ELSE <<(IF Len(Head(labels)) > 0 THEN Head(labels) \o ": " \o val
            ELSE val)>> \o LabelsWithValue(Tail(labels), val)

(* compose_annot(ann_label, ann_value) as the decoder calls it: a list of  *)
(* labels, no units, no actions, and at most one value (<<>> is None).      *)
compose_annot(ann_label, ann_value) ==
    IF ann_value = <<>> THEN SortByLen(ann_label, <<>>)
    ELSE SortByLen(LabelsWithValue(ann_label, ann_value[1])
                   \o SelectSeq(LastTwo(ann_label), LAMBDA a : Len(a) > 0),
                   <<>>)

----------------------------------------------------------------------------
(* Decoder.  A decoder object is a record m of its instance variables plus *)
(* what one decode() call produces: the records it put(), the handlers it  *)
(* entered, and whether it was cut short by an IndexError.                 *)

Raise(m) == [m EXCEPT !.raised = TRUE]

(* Statement sequencing: nothing runs after an exception was raised. *)
Then(m, F(_)) == IF m.raised THEN m ELSE F(m)

Enter(m, fn, arg) == [m EXCEPT !.calls = Append(@, <<fn, arg>>)]

(* self.put(ss, es, self.out_ann, data) *)
put(m, s, e, data) ==
    [m EXCEPT !.out = Append(@, [ss |-> s, es |-> e, ann |-> data[1],
                                 annots |-> data[2]])]

(* self.bits[i] raises IndexError when the bit list is too short *)
putd(m, s, e, data) ==
    IF s + 1 > Len(m.bits) \/ e + 1 > Len(m.bits) THEN Raise(m)
    ELSE put(m, m.bits[s + 1][2], m.bits[e + 1][3], data)

RECURSIVE putr_loop(_, _, _)
putr_loop(m, bit, end) ==
    IF bit >= end \/ m.raised THEN m
    ELSE IF bit + 1 > Len(m.bits) THEN Raise(m)
    ELSE putr_loop(put(m, m.bits[bit + 1][2], m.bits[bit + 1][3],
                       <<AnnBits_RESERVED,
                         compose_annot(bits_annots[AnnBits_RESERVED], <<>>)>>),
                   bit + 1, end)

(* range(start, end or (start + 1)); every caller passes an integer end *)
putr(m, start, end) ==
    putr_loop(m, start, IF end = 0 THEN start + 1 ELSE end)

decimal_point(m) == IF m.dpoint = "Colon" THEN ":" ELSE "."

clear_data(m) == [m EXCEPT !.display = <<>>]

(* The data command handler reading the addressing and the direction bit  *)
(* from each other's position                                             *)
handle_command_data_swapped(m0, data) ==
    LET m1 == Enter(m0, "handle_command_data", data)
        m2 == putr(m1, DataBits_MODE + 1, CommandBits_MIN)
        annM == IF Bit(data, DataBits_MODE) = 1
                THEN AnnBits_TEST ELSE AnnBits_NORMAL
        m3 == Then(m2, LAMBDA x : putd(x, DataBits_MODE, DataBits_MODE,
                  <<annM, compose_annot(bits_annots[annM], <<>>)>>))
        annA == IF Bit(data, DataBits_RW) = 1
                THEN AnnBits_FIXED ELSE AnnBits_AUTO
        m4 == Then(m3, LAMBDA x :
                  [x EXCEPT !.auto = PyBool(annA = AnnBits_AUTO)])
        m5 == Then(m4, LAMBDA x : putd(x, DataBits_ADDR, DataBits_ADDR,
                  <<annA, compose_annot(bits_annots[annA], <<>>)>>))
        annW == IF Bit(data, DataBits_ADDR) = 1
                THEN AnnBits_READ ELSE AnnBits_WRITE
        m6 == Then(m5, LAMBDA x :
                  [x EXCEPT !.write = PyBool(annW = AnnBits_WRITE)])
        m7 == Then(m6, LAMBDA x : putd(x, DataBits_RW, DataBits_RW,
                  <<annW, compose_annot(bits_annots[annW], <<>>)>>))
    IN  Then(m7, LAMBDA x : putr(x, 0, DataBits_RW))

handle_command_data(m0, data) ==
    LET m1 == Enter(m0, "handle_command_data", data)
        m2 == putr(m1, DataBits_MODE + 1, CommandBits_MIN)
        annM == IF Bit(data, DataBits_MODE) = 1
                THEN AnnBits_TEST ELSE AnnBits_NORMAL
        m3 == Then(m2, LAMBDA x : putd(x, DataBits_MODE, DataBits_MODE,
                  <<annM, compose_annot(bits_annots[annM], <<>>)>>))
        annA == IF Bit(data, DataBits_ADDR) = 1
                THEN AnnBits_FIXED ELSE AnnBits_AUTO
        m4 == Then(m3, LAMBDA x :
                  [x EXCEPT !.auto = PyBool(annA = AnnBits_AUTO)])
        m5 == Then(m4, LAMBDA x : putd(x, DataBits_ADDR, DataBits_ADDR,
                  <<annA, compose_annot(bits_annots[annA], <<>>)>>))
        annW == IF Bit(data, DataBits_RW) = 1
                THEN AnnBits_READ ELSE AnnBits_WRITE
        m6 == Then(m5, LAMBDA x :
                  [x EXCEPT !.write = PyBool(annW = AnnBits_WRITE)])
        m7 == Then(m6, LAMBDA x : putd(x, DataBits_RW, DataBits_RW,
                  <<annW, compose_annot(bits_annots[annW], <<>>)>>))
    IN  Then(m7, LAMBDA x : putr(x, 0, DataBits_RW))

(* The display command handler building the PWM mask one bit short *)
handle_command_display_short_mask(m0, data) ==
    LET m1 == Enter(m0, "handle_command_display", data)
        m2 == putr(m1, DisplayBits_SWITCH + 1, CommandBits_MIN)
        annS == IF Bit(data, DisplayBits_SWITCH) = 1
                THEN AnnBits_ON ELSE AnnBits_OFF
        m3 == Then(m2, LAMBDA x : putd(x, DisplayBits_SWITCH,
                  DisplayBits_SWITCH,
                  <<annS, compose_annot(bits_annots[annS], <<>>)>>))
        mask == RangeMask(DisplayBits_MIN, DisplayBits_MAX - 1)
        pwm == contrasts[BitAnd(data, mask) + 1]
    IN  Then(m3, LAMBDA x : putd(x, DisplayBits_MIN, DisplayBits_MAX,
            <<AnnBits_CONTRAST,
              compose_annot(bits_annots[AnnBits_CONTRAST], <<pwm>>)>>))

handle_command_display(m0, data) ==
    LET m1 == Enter(m0, "handle_command_display", data)
        m2 == putr(m1, DisplayBits_SWITCH + 1, CommandBits_MIN)
        annS == IF Bit(data, DisplayBits_SWITCH) = 1
                THEN AnnBits_ON ELSE AnnBits_OFF
        m3 == Then(m2, LAMBDA x : putd(x, DisplayBits_SWITCH,
                  DisplayBits_SWITCH,
                  <<annS, compose_annot(bits_annots[annS], <<>>)>>))
        mask == RangeMask(DisplayBits_MIN, DisplayBits_MAX)
        pwm == contrasts[BitAnd(data, mask) + 1]
    IN  Then(m3, LAMBDA x : putd(x, DisplayBits_MIN, DisplayBits_MAX,
            <<AnnBits_CONTRAST,
              compose_annot(bits_annots[AnnBits_CONTRAST], <<pwm>>)>>))

handle_command_address(m0, data) ==
    LET m1 == Enter(m0, "handle_command_address", data)
        m2 == putr(m1, AddressBits_MAX + 1, CommandBits_MIN)
        mask == RangeMask(AddressBits_MIN, AddressBits_MAX)
        adr == BitAnd(data, mask) + 1
        m3 == Then(m2, LAMBDA x : [x EXCEPT !.position = adr])
    IN  Then(m3, LAMBDA x : putd(x, AddressBits_MIN, AddressBits_MAX,
            <<AnnBits_DIGIT,
              compose_annot(bits_annots[AnnBits_DIGIT], <<ToString(adr)>>)>>))

(* getattr(self, "handle_command_{}".format(attr.lower()))(data) *)
CallHandler(m, attr, data) ==
    CASE attr = "DATA" -> handle_command_data(m, data)
      [] attr = "DISPLAY" -> handle_command_display(m, data)
      [] attr = "ADDRESS" -> handle_command_address(m, data)

(* The dispatch loop handing the whole byte to the handler *)
RECURSIVE handle_command_loop_unmasked(_, _, _, _)
handle_command_loop_unmasked(m, data, mask, i) ==
    IF i > Len(Command) \/ m.raised THEN m
    ELSE LET attr == Command[i][1]
             value == Command[i][2]
             c == BitAnd(data, mask)
         IN  IF value = c
             THEN LET ann == cmd_annot[c]
                      m1 == putd(m, CommandBits_MIN, CommandBits_MAX,
                                 <<ann, compose_annot(bits_annots[ann], <<>>)>>)
                      m2 == Then(m1, LAMBDA x : CallHandler(x, attr, data))
                  IN  handle_command_loop_unmasked(m2, data, mask, i + 1)
             ELSE handle_command_loop_unmasked(m, data, mask, i + 1)

RECURSIVE handle_command_loop(_, _, _, _)
handle_command_loop(m, data, mask, i) ==
    IF i > Len(Command) \/ m.raised THEN m
    ELSE LET attr == Command[i][1]
             value == Command[i][2]
             c == BitAnd(data, mask)
         IN  IF value = c
             THEN LET ann == cmd_annot[c]
                      m1 == putd(m, CommandBits_MIN, CommandBits_MAX,
                                 <<ann, compose_annot(bits_annots[ann], <<>>)>>)
                      m2 == Then(m1, LAMBDA x :
                                CallHandler(x, attr, BitAndNot(data, mask)))
                  IN  handle_command_loop(m2, data, mask, i + 1)
             ELSE handle_command_loop(m, data, mask, i + 1)

handle_command(m, data) ==
    handle_command_loop(Enter(m, "handle_command", data), data,
                        RangeMask(CommandBits_MIN, CommandBits_MAX), 1)

RECURSIVE handle_data_segments(_, _, _)
handle_data_segments(m, data, i) ==
    IF i > 7 \/ m.raised THEN m
    ELSE IF Bit(data, i) = 1
         THEN handle_data_segments(
                  putd(m, i, i, <<AnnBits_DIGIT, <<segments[i + 1]>> >>),
                  data, i + 1)
         ELSE handle_data_segments(m, data, i + 1)

(* handle_data() looking the whole byte up, decimal point bit included *)
handle_data_unmasked(m0, data) ==
    LET m1 == handle_data_segments(Enter(m0, "handle_data", data), data, 0)
        mask == data
        char == IF mask \in DOMAIN fonts THEN fonts[mask]
                ELSE Params_UNKNOWN_CHAR
        dp == IF mask \in DOMAIN fonts /\ Bit(data, 7) = 1
              THEN decimal_point(m0) ELSE ""
        m2 == Then(m1, LAMBDA x :
                  [x EXCEPT !.display = Append(@, char \o dp)])
    IN  Then(m2, LAMBDA x :
            IF x.auto = True THEN [x EXCEPT !.position = @ + 1] ELSE x)

(* handle_data() advancing the position whatever the addressing mode *)
handle_data_always_advance(m0, data) ==
    LET m1 == handle_data_segments(Enter(m0, "handle_data", data), data, 0)
        mask == BitAndNot(data, 2 ^ 7)
        char == IF mask \in DOMAIN fonts THEN fonts[mask]
                ELSE Params_UNKNOWN_CHAR
        dp == IF mask \in DOMAIN fonts /\ Bit(data, 7) = 1
              THEN decimal_point(m0) ELSE ""
        m2 == Then(m1, LAMBDA x :
                  [x EXCEPT !.display = Append(@, char \o dp)])
    IN  Then(m2, LAMBDA x : [x EXCEPT !.position = @ + 1])

(* handle_data() marking the decimal point only in automatic addressing *)
handle_data_dp_when_auto(m0, data) ==
    LET m1 == handle_data_segments(Enter(m0, "handle_data", data), data, 0)
        mask == BitAndNot(data, 2 ^ 7)
        char == IF mask \in DOMAIN fonts THEN fonts[mask]
                ELSE Params_UNKNOWN_CHAR
        dp == IF mask \in DOMAIN fonts /\ Bit(data, 7) = 1 /\ m0.auto = True
              THEN decimal_point(m0) ELSE ""
        m2 == Then(m1, LAMBDA x :
                  [x EXCEPT !.display = Append(@, char \o dp)])
    IN  Then(m2, LAMBDA x :
            IF x.auto = True THEN [x EXCEPT !.position = @ + 1] ELSE x)

handle_data(m0, data) ==
    LET m1 == handle_data_segments(Enter(m0, "handle_data", data), data, 0)
        mask == BitAndNot(data, 2 ^ 7)
        char == IF mask \in DOMAIN fonts THEN fonts[mask]
                ELSE Params_UNKNOWN_CHAR
        dp == IF mask \in DOMAIN fonts /\ Bit(data, 7) = 1
              THEN decimal_point(m0) ELSE ""
        m2 == Then(m1, LAMBDA x :
                  [x EXCEPT !.display = Append(@, char \o dp)])
    IN  Then(m2, LAMBDA x :
            IF x.auto = True THEN [x EXCEPT !.position = @ + 1] ELSE x)

(* "".join(self.display) *)
RECURSIVE join(_)
join(s) == IF s = <<>> THEN "" ELSE Head(s) \o join(Tail(s))

(* handle_info() taking the start bound from the current event *)
handle_info_from_ss(m0) ==
    LET m1 == Enter(m0, "handle_info", None)
        m2 == IF m1.display # <<>>
              THEN put(m1, m1.ss, m1.es,
                       <<AnnInfo_DISPLAY,
                         compose_annot(info[AnnInfo_DISPLAY],
                                       <<join(m1.display)>>)>>)
              ELSE m1
    IN  clear_data(m2)

(* handle_info() without the test for an empty display buffer *)
handle_info_unguarded(m0) ==
    LET m1 == Enter(m0, "handle_info", None)
        m2 == put(m1, m1.ssb, m1.es,
                  <<AnnInfo_DISPLAY,
                    compose_annot(info[AnnInfo_DISPLAY],
                                  <<join(m1.display)>>)>>)
    IN  clear_data(m2)

(* handle_info() also returning the position to its reset value *)
handle_info_reset_position(m0) ==
    LET m1 == Enter(m0, "handle_info", None)
        m2 == IF m1.display # <<>>
              THEN put(m1, m1.ssb, m1.es,
                       <<AnnInfo_DISPLAY,
                         compose_annot(info[AnnInfo_DISPLAY],
                                       <<join(m1.display)>>)>>)
              ELSE m1
    IN  [clear_data(m2) EXCEPT !.position = 0]

(* handle_info() putting the summary under the warning annotation *)
handle_info_as_warning(m0) ==
    LET m1 == Enter(m0, "handle_info", None)
        m2 == IF m1.display # <<>>
              THEN put(m1, m1.ssb, m1.es,
                       <<AnnInfo_WARN,
                         compose_annot(info[AnnInfo_WARN],
                                       <<join(m1.display)>>)>>)
              ELSE m1
    IN  clear_data(m2)

(* handle_info() without the final clear_data() *)
handle_info_keep_data(m0) ==
    LET m1 == Enter(m0, "handle_info", None)
    IN  IF m1.display # <<>>
        THEN put(m1, m1.ssb, m1.es,
                 <<AnnInfo_DISPLAY,
                   compose_annot(info[AnnInfo_DISPLAY],
                                 <<join(m1.display)>>)>>)
        ELSE m1

handle_info(m0) ==
    LET m1 == Enter(m0, "handle_info", None)
        m2 == IF m1.display # <<>>
              THEN put(m1, m1.ssb, m1.es,
                       <<AnnInfo_DISPLAY,
                         compose_annot(info[AnnInfo_DISPLAY],
                                       <<join(m1.display)>>)>>)
              ELSE m1
    IN  clear_data(m2)

(* The idle branch opening every transmission with unset flags *)
decode_idle_fresh_flags(m, c, d) ==
    IF c # "START" THEN m
    ELSE [m EXCEPT !.ssb = m.ss, !.state = "REGISTER COMMAND",
                   !.auto = None, !.write = None]

(* decode(), state "IDLE": wait for new transmission *)
decode_idle(m, c, d) ==
    IF c # "START" THEN m
    ELSE [m EXCEPT !.ssb = m.ss, !.state = "REGISTER COMMAND"]

(* The command branch advancing only when a command handler has run *)
decode_register_command_known_only(m, c, d) ==
    IF c = "COMMAND"
    THEN Then(handle_command(m, d),
              LAMBDA x : IF Len(x.calls) > 1
                         THEN [x EXCEPT !.state = "REGISTER DATA"] ELSE x)
    ELSE IF c = "STOP" THEN [m EXCEPT !.state = "IDLE"]
    ELSE m

(* decode(), state "REGISTER COMMAND": process command register *)
decode_register_command(m, c, d) ==
    IF c = "COMMAND"
    THEN Then(handle_command(m, d),
              LAMBDA x : [x EXCEPT !.state = "REGISTER DATA"])
    ELSE IF c = "STOP" THEN [m EXCEPT !.state = "IDLE"]
    ELSE m

(* The data branch letting a START reopen the transmission *)
decode_register_data_restart(m, c, d) ==
    IF c = "DATA" THEN handle_data(m, d)
    ELSE IF c = "STOP"
    THEN Then(handle_info(m), LAMBDA x : [x EXCEPT !.state = "IDLE"])
    ELSE IF c = "START" THEN [m EXCEPT !.ssb = m.ss]
    ELSE m

(* decode(), state "REGISTER DATA": process data register *)
decode_register_data(m, c, d) ==
    IF c = "DATA" THEN handle_data(m, d)
    ELSE IF c = "STOP"
    THEN Then(handle_info(m), LAMBDA x : [x EXCEPT !.state = "IDLE"])
    ELSE m

(* decode() returning on BITS without keeping the bit list *)
decode_bits_dropped(m0, s, e, c, d) ==
    LET m == [m0 EXCEPT !.ss = s, !.es = e,
                        !.out = <<>>, !.calls = <<>>, !.raised = FALSE]
    IN  IF c = "BITS" THEN m
        ELSE IF m.state = "IDLE" THEN decode_idle(m, c, d)
        ELSE IF m.state = "REGISTER COMMAND"
        THEN decode_register_command(m, c, d)
        ELSE IF m.state = "REGISTER DATA" THEN decode_register_data(m, c, d)
        ELSE m

(* Decoder.decode(ss, es, data) with data = [c, d] *)
decode(m0, s, e, c, d) ==
    LET m == [m0 EXCEPT !.ss = s, !.es = e,
                        !.out = <<>>, !.calls = <<>>, !.raised = FALSE]
    IN  IF c = "BITS" THEN [m EXCEPT !.bits = d]
        ELSE IF m.state = "IDLE" THEN decode_idle(m, c, d)
        ELSE IF m.state = "REGISTER COMMAND"
        THEN decode_register_command(m, c, d)
        ELSE IF m.state = "REGISTER DATA" THEN decode_register_data(m, c, d)
        ELSE m

(* reset() leaving the state of the machine as it is *)
reset_keep_state(m) ==
    clear_data([m EXCEPT !.ss = 0, !.es = 0, !.ssb = 0, !.bits = <<>>,
                         !.write = None, !.auto = None, !.position = 0])

(* Decoder.reset(): reset decoder and initialize instance variables *)
reset(m) ==
    clear_data([m EXCEPT !.ss = 0, !.es = 0, !.ssb = 0, !.bits = <<>>,
                         !.write = None, !.state = "IDLE", !.auto = None,
                         !.position = 0])

(* Decoder.__init__() and start(): a new object, none of whose instance   *)
(* variables is set yet, is reset()                                        *)
Decoder_init(opt) ==
    reset([ss |-> None, es |-> None, ssb |-> None, bits |-> None,
           write |-> None, state |-> None, auto |-> None, position |-> None,
           display |-> None, dpoint |-> opt, out |-> <<>>, calls |-> <<>>,
           raised |-> FALSE])

(* Decoder.options: the recognised values of "dpoint" *)
options == {"Dot", "Colon"}

----------------------------------------------------------------------------
(* The decoder as a state machine driven by the upstream decoder *)

Self ==
    [ss |-> ss, es |-> es, ssb |-> ssb, bits |-> bits, write |-> write,
     state |-> state, auto |-> auto, position |-> position,
     display |-> display, dpoint |-> dpoint, out |-> out, calls |-> calls,
     raised |-> raised]

(* The instance variables take the values of object m, which call c, d    *)
(* left                                                                   *)
Becomes(m, c, d) ==
        /\ ss' = m.ss
        /\ es' = m.es
        /\ ssb' = m.ssb
        /\ bits' = m.bits
        /\ write' = m.write
        /\ state' = m.state
        /\ auto' = m.auto
        /\ position' = m.position
        /\ display' = m.display
        /\ dpoint' = m.dpoint
        /\ out' = m.out
        /\ calls' = m.calls
        /\ raised' = m.raised
        /\ cmd' = c
        /\ databyte' = d

(* One decode() call of a decoder that has not been reset() *)
Call(s, e, c, d) ==
    /\ Becomes(decode(Self, s, e, c, d), c, d)
    /\ UNCHANGED <<fresh, reused>>

(* The bit list the upstream decoder sends for byte b: one               *)
(* [bitvalue, startsample, endsample] per bit, least significant first.  *)
BitList(b, s) == [i \in 1..8 |-> <<Bit(b, i - 1), s + i - 1, s + i>>]

RECURSIVE BitsValueFrom(_, _)
BitsValueFrom(bl, i) ==
    IF i > Len(bl) THEN 0
    ELSE bl[i][1] * (2 ^ (i - 1)) + BitsValueFrom(bl, i + 1)

(* The byte a bit list describes *)
BitsValue(bl) == BitsValueFrom(bl, 1)

(* Bytes the upstream decoder sends in the state machine specification:   *)
(* every command class, every sub-field value, glyphs with and without    *)
(* decimal point, and patterns missing from the font table.               *)
SampleBytes == {0, 63, 64, 66, 70, 72, 129, 136, 191, 192, 199}

Byte == 0..255

Init ==
    /\ dpoint \in options
    /\ ss = Decoder_init(dpoint).ss
    /\ es = Decoder_init(dpoint).es
    /\ ssb = Decoder_init(dpoint).ssb
    /\ bits = Decoder_init(dpoint).bits
    /\ write = Decoder_init(dpoint).write
    /\ state = Decoder_init(dpoint).state
    /\ auto = Decoder_init(dpoint).auto
    /\ position = Decoder_init(dpoint).position
    /\ display = Decoder_init(dpoint).display
    /\ out = <<>>
    /\ calls = <<>>
    /\ raised = FALSE
    /\ cmd = None
    /\ databyte = None
    /\ fresh = Decoder_init(dpoint)
    /\ reused = FALSE

(* Events arrive in sample order; the capture ends after MaxEvents events. *)
(* The upstream decoder sends the BITS event of a byte and then at once    *)
(* the COMMAND or DATA event of that byte.                                 *)
Start ==
    /\ es < MaxEvents * EvWidth
    /\ cmd # "BITS"
    /\ Call(es, es + EvWidth, "START", None)

Stop ==
    /\ es < MaxEvents * EvWidth
    /\ cmd # "BITS"
    /\ Call(es, es + EvWidth, "STOP", None)

Bits ==
    /\ es + EvWidth < MaxEvents * EvWidth
    /\ cmd # "BITS"
    /\ \E b \in SampleBytes : Call(es, es + EvWidth, "BITS", BitList(b, es))

CommandEv ==
    /\ es < MaxEvents * EvWidth
    /\ cmd = "BITS"
    /\ Call(es, es + EvWidth, "COMMAND", BitsValue(bits))

DataEv ==
    /\ es < MaxEvents * EvWidth
    /\ cmd = "BITS"
    /\ Len(display) < MaxDisplay
    /\ Call(es, es + EvWidth, "DATA", BitsValue(bits))

Next == Start \/ Stop \/ Bits \/ CommandEv \/ DataEv

Spec == Init /\ [][Next]_vars

(* The same decoder fed every byte value by a well-formed capture: each   *)
(* transmission is START, the BITS and COMMAND events of one command byte, *)
(* the BITS and DATA events of at most one data byte, STOP.                *)
ByteStart ==
    /\ es < MaxByteEvents * EvWidth
    /\ state = "IDLE"
    /\ Call(es, es + EvWidth, "START", None)

ByteBits ==
    /\ es + EvWidth < MaxByteEvents * EvWidth
    /\ cmd \in {"START", "COMMAND"}
    /\ \E b \in Byte : Call(es, es + EvWidth, "BITS", BitList(b, es))

ByteCommand ==
    /\ es < MaxByteEvents * EvWidth
    /\ cmd = "BITS"
    /\ state = "REGISTER COMMAND"
    /\ Call(es, es + EvWidth, "COMMAND", BitsValue(bits))

ByteData ==
    /\ es < MaxByteEvents * EvWidth
    /\ cmd = "BITS"
    /\ state = "REGISTER DATA"
    /\ Call(es, es + EvWidth, "DATA", BitsValue(bits))

ByteStop ==
    /\ es < MaxByteEvents * EvWidth
    /\ cmd \in {"START", "COMMAND", "DATA"}
    /\ Call(es, es + EvWidth, "STOP", None)

NextByte == ByteStart \/ ByteBits \/ ByteCommand \/ ByteData \/ ByteStop

SpecByte == Init /\ [][NextByte]_vars

(* The decoder fed by an upstream that does not keep the input contract:   *)
(* byte events with no BITS event before them, bit lists shorter than a    *)
(* byte.  An IndexError leaves decode() and ends the decoding session.     *)
RawBytes == {0, 63, 64, 136, 192}

RawBitLens == {0, 6, 8}

RawStart ==
    /\ es < MaxRawEvents * EvWidth
    /\ raised = FALSE
    /\ Call(es, es + EvWidth, "START", None)

RawStop ==
    /\ es < MaxRawEvents * EvWidth
    /\ raised = FALSE
    /\ Call(es, es + EvWidth, "STOP", None)

RawBits ==
    /\ es < MaxRawEvents * EvWidth
    /\ raised = FALSE
    /\ \E b \in RawBytes, n \in RawBitLens :
           Call(es, es + EvWidth, "BITS", SubSeq(BitList(b, es), 1, n))

RawCommand ==
    /\ es < MaxRawEvents * EvWidth
    /\ raised = FALSE
    /\ \E b \in RawBytes : Call(es, es + EvWidth, "COMMAND", b)

RawData ==
    /\ es < MaxRawEvents * EvWidth
    /\ raised = FALSE
    /\ \E b \in RawBytes : Call(es, es + EvWidth, "DATA", b)

NextRaw == RawStart \/ RawStop \/ RawBits \/ RawCommand \/ RawData

SpecRaw == Init /\ [][NextRaw]_vars

(* The decoder reset() between captures: after a reset() the same events   *)
(* go to the decoder and to a newly constructed one.                       *)
Both(s, e, c, d) ==
    /\ Becomes(decode(Self, s, e, c, d), c, d)
    /\ fresh' = decode(fresh, s, e, c, d)
    /\ UNCHANGED reused

Reset ==
    /\ Becomes([reset(Self) EXCEPT !.out = <<>>, !.calls = <<>>,
                                   !.raised = FALSE], "RESET", None)
    /\ fresh' = Decoder_init(dpoint)
    /\ reused' = (<<ss, es, ssb, bits, write, state, auto, position, display>>
                  # <<0, 0, 0, <<>>, None, "IDLE", None, 0, <<>> >>)

ResetStart ==
    /\ es < MaxResetEvents * EvWidth
    /\ cmd # "BITS"
    /\ Both(es, es + EvWidth, "START", None)

ResetStop ==
    /\ es < MaxResetEvents * EvWidth
    /\ cmd # "BITS"
    /\ Both(es, es + EvWidth, "STOP", None)

ResetBits ==
    /\ es + EvWidth < MaxResetEvents * EvWidth
    /\ cmd # "BITS"
    /\ \E b \in SampleBytes : Both(es, es + EvWidth, "BITS", BitList(b, es))

ResetCommand ==
    /\ es < MaxResetEvents * EvWidth
    /\ cmd = "BITS"
    /\ Both(es, es + EvWidth, "COMMAND", BitsValue(bits))

ResetData ==
    /\ es < MaxResetEvents * EvWidth
    /\ cmd = "BITS"
    /\ Len(display) < MaxDisplay
    /\ Both(es, es + EvWidth, "DATA", BitsValue(bits))

NextReset ==
    Reset \/ ResetStart \/ ResetStop \/ ResetBits \/ ResetCommand
          \/ ResetData

SpecReset == Init /\ [][NextReset]_vars

(* Two decoders with the same options fed the same well-formed capture,   *)
(* except that the command byte of each transmission may differ between    *)
(* them: START, the BITS and COMMAND events of a command byte each, the    *)
(* BITS and DATA events of the same data bytes, STOP.                      *)
Twin(s, e, c, d, d2) ==
    /\ Becomes(decode(Self, s, e, c, d), c, d)
    /\ fresh' = decode(fresh, s, e, c, d2)
    /\ UNCHANGED reused

TwinStart ==
    /\ es < MaxTwinEvents * EvWidth
    /\ state = "IDLE"
    /\ Twin(es, es + EvWidth, "START", None, None)

TwinCommandBits ==
    /\ es + EvWidth < MaxTwinEvents * EvWidth
    /\ cmd = "START"
    /\ \E b \in SampleBytes, b2 \in SampleBytes :
           Twin(es, es + EvWidth, "BITS", BitList(b, es), BitList(b2, es))

TwinCommand ==
    /\ es < MaxTwinEvents * EvWidth
    /\ cmd = "BITS"
    /\ state = "REGISTER COMMAND"
    /\ Twin(es, es + EvWidth, "COMMAND", BitsValue(bits),
            BitsValue(fresh.bits))

TwinDataBits ==
    /\ es + EvWidth < MaxTwinEvents * EvWidth
    /\ cmd \in {"COMMAND", "DATA"}
    /\ Len(display) < MaxDisplay
    /\ \E b \in SampleBytes :
           Twin(es, es + EvWidth, "BITS", BitList(b, es), BitList(b, es))

TwinData ==
    /\ es < MaxTwinEvents * EvWidth
    /\ cmd = "BITS"
    /\ state = "REGISTER DATA"
    /\ Twin(es, es + EvWidth, "DATA", BitsValue(bits), BitsValue(fresh.bits))

TwinStop ==
    /\ es < MaxTwinEvents * EvWidth
    /\ cmd \in {"START", "COMMAND", "DATA"}
    /\ Twin(es, es + EvWidth, "STOP", None, None)

NextTwin ==
    TwinStart \/ TwinCommandBits \/ TwinCommand \/ TwinDataBits \/ TwinData
              \/ TwinStop

SpecTwin == Init /\ [][NextTwin]_vars

TypeOK ==
    /\ state \in {"IDLE", "REGISTER COMMAND", "REGISTER DATA"}
    /\ auto \in {None, True, False}
    /\ write \in {None, True, False}
    /\ position \in Nat
    /\ raised \in BOOLEAN

----------------------------------------------------------------------------
(* Properties of the transmission state machine *)

(* The display summary records among a list of records *)
Summaries(recs) == SelectSeq(recs, LAMBDA r : r.ann = AnnInfo_DISPLAY)

(* Concatenation of a list of strings, folded from the left *)
RECURSIVE ConcatLeft(_)
ConcatLeft(s) ==
    IF s = <<>> THEN ""
    ELSE ConcatLeft(SubSeq(s, 1, Len(s) - 1)) \o s[Len(s)]

(* C1: the machine starts in IDLE; IDLE + START goes to REGISTER COMMAND   *)
(* and records the event's start sample in ssb; REGISTER COMMAND + COMMAND *)
(* goes to REGISTER DATA for every byte, reserved class 00 included;       *)
(* REGISTER COMMAND + STOP goes to IDLE; REGISTER DATA + DATA stays;       *)
(* REGISTER DATA + STOP goes to IDLE; no other step changes the state, and *)
(* the state is always one of the three.                                   *)
C1_Transitions ==
    /\ state = "IDLE"
    /\ [][ /\ (state = "IDLE" /\ cmd' = "START")
              => (state' = "REGISTER COMMAND" /\ ssb' = ss' /\ ssb' = es)
           /\ (state = "REGISTER COMMAND" /\ cmd' = "COMMAND")
              => state' = "REGISTER DATA"
           /\ (state = "REGISTER COMMAND" /\ cmd' = "STOP")
              => state' = "IDLE"
           /\ (state = "REGISTER DATA" /\ cmd' = "DATA")
              => state' = "REGISTER DATA"
           /\ (state = "REGISTER DATA" /\ cmd' = "STOP")
              => state' = "IDLE"
           /\ state' # state
              => <<state, cmd', state'>> \in
                    { <<"IDLE", "START", "REGISTER COMMAND">>,
                      <<"REGISTER COMMAND", "COMMAND", "REGISTER DATA">>,
                      <<"REGISTER COMMAND", "STOP", "IDLE">>,
                      <<"REGISTER DATA", "STOP", "IDLE">> }
           /\ state' \in {"IDLE", "REGISTER COMMAND", "REGISTER DATA"}
         ]_vars

(* A command byte of the reserved class 00 has opened the data phase. *)
C1_Witness ==
    /\ cmd = "COMMAND"
    /\ databyte = 0
    /\ state = "REGISTER DATA"
    /\ ssb > 0

(* C2: a STOP processed in REGISTER DATA with a non-empty display buffer   *)
(* puts exactly one record: the display summary, whose text is the buffer  *)
(* entries concatenated in arrival order, from ssb to the end sample of    *)
(* the STOP; ssb is the start sample of the START that left IDLE and does  *)
(* not move while the transmission is open.                                *)
C2_SummaryRecord ==
    [][ /\ (state = "REGISTER DATA" /\ cmd' = "STOP" /\ display # <<>>)
           => /\ Len(out') = 1
              /\ out'[1].ann = AnnInfo_DISPLAY
              /\ out'[1].annots[1] = "Tubes: " \o ConcatLeft(display)
              /\ out'[1].ss = ssb
              /\ out'[1].es = es'
              /\ es' = es + EvWidth
        /\ (state = "IDLE" /\ cmd' = "START") => ssb' = ss'
        /\ state # "IDLE" => ssb' = ssb
      ]_vars

(* A summary of two buffer entries has been put, starting at the START of  *)
(* a transmission that did not begin at sample 0.                          *)
C2_Witness ==
    /\ cmd = "STOP"
    /\ Len(out) = 1
    /\ out[1].ann = AnnInfo_DISPLAY
    /\ out[1].annots[1] = "Tubes: 0.?"
    /\ out[1].ss > 0
    /\ out[1].es = es

(* C3: a display summary is put only by a STOP processed in REGISTER DATA  *)
(* with a non-empty buffer; a STOP that finds the buffer empty puts        *)
(* nothing and ends in IDLE; the buffer is empty outside REGISTER DATA, so *)
(* START, STOP and START, COMMAND, STOP put no summary.                    *)
C3_SummaryOnlyAtStop ==
    [][ /\ Summaries(out') # <<>>
           => (state = "REGISTER DATA" /\ cmd' = "STOP" /\ display # <<>>)
        /\ (cmd' = "STOP" /\ display = <<>>)
           => (out' = <<>> /\ state' = "IDLE")
        /\ state \in {"IDLE", "REGISTER COMMAND"} => display = <<>>
        /\ (state = "REGISTER COMMAND" /\ cmd' = "COMMAND") => display' = <<>>
      ]_vars

(* START, COMMAND, STOP: the STOP was processed by handle_info with an     *)
(* empty buffer and put nothing.                                           *)
C3_Witness ==
    /\ cmd = "STOP"
    /\ state = "IDLE"
    /\ calls = << <<"handle_info", None>> >>
    /\ out = <<>>

(* C4: an event outside the transition table of the current state (any    *)
(* event but START in IDLE, START or DATA in REGISTER COMMAND, START or    *)
(* COMMAND in REGISTER DATA) leaves state, display, auto, write, position  *)
(* and ssb unchanged and puts no record.                                   *)
C4_IgnoredEvents ==
    [][ ( \/ (state = "IDLE" /\ cmd' # "START")
          \/ (state = "REGISTER COMMAND" /\ cmd' \in {"START", "DATA"})
          \/ (state = "REGISTER DATA" /\ cmd' \in {"START", "COMMAND"}) )
        => /\ UNCHANGED <<state, display, auto, write, position, ssb>>
           /\ out' = <<>>
           /\ calls' = <<>>
      ]_vars

(* A START arrived inside an open transmission that already holds a glyph  *)
(* and moved neither the state nor the start bound.                        *)
C4_Witness ==
    /\ cmd = "START"
    /\ state = "REGISTER DATA"
    /\ display # <<>>
    /\ ssb < ss

----------------------------------------------------------------------------
(* Properties of the command and data byte interpreter *)

(* The command handlers a decode() call entered, after handle_command *)
ClassHandlers(cs) == IF cs = <<>> THEN <<>> ELSE Tail(cs)

HasAnn(recs, a) == \E i \in 1..Len(recs) : recs[i].ann = a

(* C5: the top two bits of a command byte select the handler: 01 only the  *)
(* data handler, 10 only the display handler, 11 only the address handler, *)
(* 00 no handler, no record and no change of auto, write, position,        *)
(* display or ssb; the handler gets the byte with bits 6 and 7 cleared.    *)
C5_Dispatch ==
    [][ (state = "REGISTER COMMAND" /\ cmd' = "COMMAND")
        => LET b == databyte'
               top == b \div 64
               low == b - 64 * top
           IN  /\ b \in 0..255
               /\ calls' # <<>>
               /\ calls'[1] = <<"handle_command", b>>
               /\ top = 1 => ClassHandlers(calls')
                                = << <<"handle_command_data", low>> >>
               /\ top = 2 => ClassHandlers(calls')
                                = << <<"handle_command_display", low>> >>
               /\ top = 3 => ClassHandlers(calls')
                                = << <<"handle_command_address", low>> >>
               /\ top = 0 => /\ ClassHandlers(calls') = <<>>
                             /\ out' = <<>>
                             /\ UNCHANGED <<auto, write, position, display,
                                            ssb>>
      ]_vars

(* Byte 0xFF went to the address handler, which got 0x3F. *)
C5_Witness ==
    /\ cmd = "COMMAND"
    /\ databyte = 255
    /\ calls = << <<"handle_command", 255>>, <<"handle_command_address", 63>> >>

(* C6: after a DATA class command byte auto is true exactly when bit 2 is  *)
(* 0 and write is true exactly when bit 1 is 0, and the mode record is     *)
(* "test" exactly when bit 3 is 1 ("normal" otherwise); DISPLAY and        *)
(* ADDRESS class bytes leave auto and write unchanged.                     *)
C6_DataCommandFlags ==
    [][ (state = "REGISTER COMMAND" /\ cmd' = "COMMAND")
        => LET b == databyte'
           IN  /\ b \div 64 = 1
                  => /\ auto' = (IF (b \div 4) % 2 = 0 THEN True ELSE False)
                     /\ write' = (IF (b \div 2) % 2 = 0 THEN True ELSE False)
                     /\ HasAnn(out', AnnBits_TEST) <=> ((b \div 8) % 2 = 1)
                     /\ HasAnn(out', AnnBits_NORMAL) <=> ((b \div 8) % 2 = 0)
               /\ b \div 64 \in {2, 3} => UNCHANGED <<auto, write>>
      ]_vars

(* A DISPLAY or ADDRESS command of a later transmission found the flags a  *)
(* data command had set to fixed addressing and read, and kept them.       *)
C6_Witness ==
    /\ cmd = "COMMAND"
    /\ databyte \div 64 \in {2, 3}
    /\ auto = False
    /\ write = False

(* C7: a data byte processed in REGISTER DATA appends exactly one entry;   *)
(* its glyph is the font of the byte with bit 7 cleared (0b0111111 gives   *)
(* "0"), or "?" when the pattern is not in the font table.                 *)
C7_Glyph ==
    [][ (state = "REGISTER DATA" /\ cmd' = "DATA")
        => LET d == databyte'
               p == d % 128
               g == IF p \in DOMAIN fonts THEN fonts[p] ELSE "?"
               n == Len(display)
           IN  /\ d \in 0..255
               /\ Len(display') = n + 1
               /\ SubSeq(display', 1, n) = display
               /\ display'[n + 1] \in {g, g \o ".", g \o ":"}
               /\ p = 63 => display'[n + 1] \in {"0", "0.", "0:"}
      ]_vars

(* Byte 0xFF (pattern 0b1111111 with the decimal point bit) gave glyph 8. *)
C7_Witness ==
    /\ cmd = "DATA"
    /\ databyte = 255
    /\ display \in {<<"8.">>, <<"8:">>}

(* C8: the entry appended for a data byte is the glyph followed by "."     *)
(* (option Dot) or ":" (option Colon) when bit 7 is set and by nothing     *)
(* when it is clear, for every pattern, unknown ones included.             *)
C8_DecimalPoint ==
    [][ (state = "REGISTER DATA" /\ cmd' = "DATA")
        => LET d == databyte'
               p == d % 128
               g == IF p \in DOMAIN fonts THEN fonts[p] ELSE "?"
               mark == IF d < 128 THEN ""
                       ELSE IF dpoint = "Colon" THEN ":" ELSE "."
           IN  display'[Len(display')] = g \o mark
      ]_vars

(* C9: a data byte is appended at the end of the display buffer, which     *)
(* only grows until the closing STOP; position grows by exactly 1 with a   *)
(* data byte when auto is true and is unchanged by it when auto is false   *)
(* or was never set.                                                       *)
C9_AppendAndAdvance ==
    [][ /\ (state = "REGISTER DATA" /\ cmd' = "DATA")
           => /\ Len(display') = Len(display) + 1
              /\ SubSeq(display', 1, Len(display)) = display
              /\ auto = True => position' = position + 1
              /\ auto # True => position' = position
        /\ (state = "REGISTER DATA" /\ cmd' # "STOP")
           => /\ Len(display') >= Len(display)
              /\ SubSeq(display', 1, Len(display)) = display
      ]_vars

(* Two data bytes under auto addressing, after a command that set no       *)
(* address: the buffer holds both in arrival order, position went 0, 1, 2. *)
C9_Witness ==
    /\ cmd = "DATA"
    /\ auto = True
    /\ display = <<"0", "?">>
    /\ position = 2

(* C10: after an ADDRESS class command byte position is the value of bits  *)
(* 0..2 plus 1, and lies in 1..6.                                          *)
C10_AddressRange ==
    [][ (state = "REGISTER COMMAND" /\ cmd' = "COMMAND"
         /\ databyte' \div 64 = 3)
        => /\ position' = (databyte' % 8) + 1
           /\ position' \in 1..6
      ]_vars

----------------------------------------------------------------------------
(* Properties of the transmission context *)

(* C11: position is an integer in 1..6 in every reachable state. *)
C11_PositionRange == position \in 1..6

----------------------------------------------------------------------------
(* The end-to-end scenario START, BITS, COMMAND(0x44), BITS, DATA(0x3F),  *)
(* STOP on a new decoder with option Dot                                   *)

(* The DATA(0x3F) step of the scenario gives the buffer <<"0">>. *)
ScenarioDataStep ==
    (dpoint = "Dot" /\ es = 4 * EvWidth /\ state = "REGISTER DATA"
     /\ write = True /\ display = <<>> /\ cmd' = "DATA" /\ databyte' = 63)
    => display' = <<"0">>

(* The STOP step of the scenario puts the summary "0" over the whole       *)
(* transmission.                                                           *)
ScenarioStopStep ==
    (dpoint = "Dot" /\ es = 5 * EvWidth /\ state = "REGISTER DATA"
     /\ display = <<"0">> /\ cmd' = "STOP")
    => /\ Len(out') = 1
       /\ out'[1].ann = AnnInfo_DISPLAY
       /\ out'[1].annots[1] = "Tubes: 0"
       /\ out'[1].ss = 0
       /\ out'[1].es = 6 * EvWidth
       /\ state' = "IDLE"

(* The command step of the scenario: 0x44 is a DATA class byte reported    *)
(* as normal mode and write direction.                                     *)
ScenarioCommandStep ==
    (dpoint = "Dot" /\ es = 2 * EvWidth /\ state = "REGISTER COMMAND"
     /\ cmd' = "COMMAND" /\ databyte' = 68)
    => /\ HasAnn(out', AnnBits_DATA)
       /\ HasAnn(out', AnnBits_NORMAL)
       /\ HasAnn(out', AnnBits_WRITE)
       /\ write' = True

(* C14: in the scenario the command byte 0x44 is decoded as DATA class     *)
(* with auto addressing (auto true), normal mode and write; the buffer     *)
(* becomes <<"0">> and the summary "0" is put.                             *)
C14_ScenarioAuto ==
    [][ /\ ScenarioCommandStep
        /\ (dpoint = "Dot" /\ es = 2 * EvWidth /\ state = "REGISTER COMMAND"
            /\ cmd' = "COMMAND" /\ databyte' = 68)
           => (auto' = True /\ HasAnn(out', AnnBits_AUTO))
        /\ ScenarioDataStep
        /\ ScenarioStopStep
      ]_vars

(* C14 as the decoder behaves: 0x44 has bit 2 set, so the command byte is  *)
(* decoded as DATA class with fixed addressing (auto false), normal mode   *)
(* and write; the buffer becomes <<"0">> and the summary "0" is put.       *)
C14_ScenarioFixed ==
    [][ /\ ScenarioCommandStep
        /\ (dpoint = "Dot" /\ es = 2 * EvWidth /\ state = "REGISTER COMMAND"
            /\ cmd' = "COMMAND" /\ databyte' = 68)
           => (auto' = False /\ HasAnn(out', AnnBits_FIXED)
               /\ ~HasAnn(out', AnnBits_AUTO))
        /\ ScenarioDataStep
        /\ ScenarioStopStep
      ]_vars

(* The scenario has run to its STOP: fixed addressing, write, summary "0"  *)
(* from sample 0, position untouched.                                      *)
C14_Witness ==
    /\ dpoint = "Dot"
    /\ cmd = "STOP"
    /\ es = 6 * EvWidth
    /\ auto = False
    /\ write = True
    /\ position = 0
    /\ Len(out) = 1
    /\ out[1].annots[1] = "Tubes: 0"
    /\ out[1].ss = 0

----------------------------------------------------------------------------
(* Further properties of decode() and of the records *)

(* C15: a BITS event in any state replaces the bit list and leaves state,  *)
(* display, auto, write, position and ssb unchanged, and puts no record.   *)
C15_BitsOnlyUpdatesBits ==
    [][ cmd' = "BITS"
        => /\ bits' = databyte'
           /\ UNCHANGED <<state, display, auto, write, position, ssb>>
           /\ out' = <<>>
           /\ calls' = <<>>
      ]_vars

(* A BITS event arrived in the data phase over an older bit list and a     *)
(* non-empty buffer.                                                       *)
C15_Witness ==
    /\ cmd = "BITS"
    /\ state = "REGISTER DATA"
    /\ display # <<>>
    /\ bits = databyte
    /\ bits[1][2] = ss

(* C17: a DISPLAY class command byte reports the contrast label            *)
(* contrasts[bits 0..2] (index 3 is "10/16"), reports the switch as ON     *)
(* exactly when bit 3 is 1 and as OFF otherwise, and changes none of       *)
(* auto, write, position, display and ssb.                                 *)
C17_DisplayCommand ==
    [][ (state = "REGISTER COMMAND" /\ cmd' = "COMMAND"
         /\ databyte' \div 64 = 2)
        => LET b == databyte'
               i == b % 8
               label == contrasts[i + 1]
           IN  /\ \E k \in 1..Len(out') :
                      /\ out'[k].ann = AnnBits_CONTRAST
                      /\ out'[k].annots[1] = "Contrast: " \o label
               /\ i = 3 => label = "10/16"
               /\ HasAnn(out', AnnBits_ON) <=> ((b \div 8) % 2 = 1)
               /\ HasAnn(out', AnnBits_OFF) <=> ((b \div 8) % 2 = 0)
               /\ UNCHANGED <<auto, write, position, display, ssb>>
      ]_vars

(* Byte 0x8F: display on, contrast index 7. *)
C17_Witness ==
    /\ cmd = "COMMAND"
    /\ databyte = 143
    /\ HasAnn(out, AnnBits_ON)
    /\ \E k \in 1..Len(out) : out[k].annots[1] = "Contrast: 14/16"

(* C19: no record is ever put under the warning annotation: every record   *)
(* has one of the bit annotations or the display summary annotation.       *)
C19_NoWarning ==
    \A k \in 1..Len(out) :
        /\ out[k].ann # AnnInfo_WARN
        /\ out[k].ann \in (AnnBits_RESERVED..AnnBits_ON) \cup {AnnInfo_DISPLAY}

(* A STOP has put a display summary. *)
C19_Witness ==
    /\ cmd = "STOP"
    /\ out # <<>>
    /\ out[1].ann = AnnInfo_DISPLAY

(* C20: the display buffer is empty whenever the state is IDLE or          *)
(* REGISTER COMMAND.                                                       *)
C20_BufferOnlyInDataPhase ==
    state \in {"IDLE", "REGISTER COMMAND"} => display = <<>>

(* A STOP has put a summary of two glyphs and left the buffer empty in     *)
(* IDLE.                                                                   *)
C20_Witness ==
    /\ cmd = "STOP"
    /\ state = "IDLE"
    /\ Len(out) = 1
    /\ out[1].annots[1] = "Tubes: 00"
    /\ display = <<>>

----------------------------------------------------------------------------
(* Properties of failure and of reset() *)

(* C16: no decode() call fails, whatever the event and whatever the bit    *)
(* list held when a COMMAND or DATA event arrives.                         *)
C16_NeverAborts == raised = FALSE

(* C18: reset() restores the instance variables of a new decoder, and      *)
(* after a reset(), whatever the decoder had processed before it, every    *)
(* decode() call puts the same records, in the same order, as the same     *)
(* call of a newly constructed decoder given the same events.              *)
C18_ResetAsNew ==
    [][ /\ out' = fresh'.out
        /\ cmd' = "RESET"
           => <<ss', es', ssb', bits', write', state', auto', position',
                display'>>
              = <<0, 0, 0, <<>>, None, "IDLE", None, 0, <<>> >>
      ]_vars

(* A decoder that was reset() while it differed from a new one has since   *)
(* put a display summary, the one the new decoder put.                     *)
C18_Witness ==
    /\ reused
    /\ cmd = "STOP"
    /\ Summaries(out) # <<>>
    /\ out = fresh.out

----------------------------------------------------------------------------
(* Properties of two decoders compared *)

(* The texts of the display summaries among a list of records *)
SummaryTexts(recs) ==
    [i \in 1..Len(Summaries(recs)) |-> Summaries(recs)[i].annots]

(* C21: the entry appended to the display buffer for a data byte depends   *)
(* only on the byte and on the decimal point option: two decoders that     *)
(* differ in the command byte of the transmission, in write, in auto or in *)
(* position append the same entry for the same data byte, and put the same *)
(* summary text at STOP.                                                   *)
C21_EntryIndependent ==
    [][ /\ (state = "REGISTER DATA" /\ cmd' = "DATA")
           => /\ Len(display') = Len(display) + 1
              /\ Len(fresh'.display) = Len(fresh.display) + 1
              /\ SubSeq(display', 1, Len(display)) = display
              /\ SubSeq(fresh'.display, 1, Len(fresh.display)) = fresh.display
              /\ display'[Len(display')] = fresh'.display[Len(fresh'.display)]
        /\ cmd' = "STOP"
           => /\ SummaryTexts(out') = SummaryTexts(fresh'.out)
              /\ (display # <<>>) => SummaryTexts(out') # <<>>
      ]_vars

(* Two decoders that differ in write, in auto and in position have         *)
(* appended the same entries for a glyph with decimal point and for a      *)
(* pattern missing from the font table, and have put the same summary.     *)
C21_Witness ==
    /\ cmd = "STOP"
    /\ write = True
    /\ fresh.write = False
    /\ auto = True
    /\ fresh.auto = False
    /\ position # fresh.position
    /\ Len(out) = 1
    /\ out[1].annots[1] = "Tubes: 0.?"
    /\ Len(fresh.out) = 1
    /\ fresh.out[1].annots[1] = "Tubes: 0.?"

====
